---- MODULE Spec2Model ----
(***************************************************************************)
(* Swapchain / frame lifecycle of the rtrt renderer prototypes.            *)
(*                                                                         *)
(* The repository holds three render-loop prototypes:                      *)
(*   "render" : Renderer               (src/src/render.rs, ash)            *)
(*   "ctx"    : PresentCtx::run        (src/src/ctx.rs, vulkano)           *)
(*   "main"   : main's event closure   (src/src/main.rs, sierra)           *)
(* The variable `variant` says which prototype is running; it is chosen at *)
(* start-up and never changes.  Every handler is one atomic action.  The   *)
(* record `last` is a log of what the most recent tick did (which calls it *)
(* made and what they returned); it is history, not program state.         *)
(***************************************************************************)
EXTENDS Integers, Sequences, FiniteSets, TLC

\* ------------------------------------------------------------------ bounds
MaxWidth == 2
NumImages == 2
MaxLen == 2
MaxImageCount == 3

\* ------------------------------------------------------- program constants
max_frames_in_flight == 2
fences_len == 3
non_optimal_limit == 100
\* std::u32::MAX, the "undefined" current extent.  TLC's integers
\* are 32-bit signed, so the sentinel is the largest value they hold.
U32Max == 2147483647

VARIABLES
    variant,                  \* which prototype runs
    window,                   \* window.inner_size()
    eventQueued,              \* a Resized/ScaleFactorChanged event is queued
    fixed_extent,             \* the surface dictates its current extent
    failed,                   \* the loop returned Err / panicked
    inflight,                 \* GPU: unretired submissions per slot
    last,                     \* log of the most recent tick
    original,                 \* window size and viewport at start-up
    \* --- render.rs, struct Renderer
    sized_renderer,
    resize_needed,
    current_frame_in_flight,
    in_flight_fences,
    \* --- ctx.rs, PresentCtx and the locals of run
    swapchain,
    viewport,
    command_buffers,
    window_resized,
    recreate_swapchain,
    fences,
    lost,                     \* per image: a queued submission whose fence was dropped
    \* --- main.rs, locals of main
    main_fences,
    fence_index,
    non_optimal_count,
    surface,
    \* --- ctx/swapchain.rs, DeviceCtx::create_swapchain_ctx
    physical_info,            \* swapchain_support_details, cached at device selection
    swapchain_ctx,            \* the SwapchainCtx of the last successful call, if any
    created,                  \* log of the last call: its argument, create_info, result
    \* --- ctx/overall.rs, OverallCtx::new
    physical_devices,         \* enumerate_physical_devices(): queue families per device
    device_ctx,               \* what device construction returned, if it ran
    \* --- render.rs and vulkan/*.rs, the Rc graph while values are dropped
    strong,                   \* Rc strong count (1 for a value owned in place)
    dropping,                 \* values still to be dropped, next one first
    teardown                  \* wait_for_idle and destroy calls made, in order

envVars    == <<variant, window, eventQueued, fixed_extent, failed, inflight, last,
                original>>
renderVars == <<sized_renderer, resize_needed, current_frame_in_flight, in_flight_fences>>
ctxVars    == <<swapchain, viewport, command_buffers, window_resized, recreate_swapchain,
                fences, lost>>
mainVars   == <<main_fences, fence_index, non_optimal_count, surface>>
swapVars   == <<physical_info, swapchain_ctx, created>>
auxVars    == <<swapVars, physical_devices, device_ctx, strong, dropping, teardown>>
vars       == <<envVars, renderVars, ctxVars, mainVars, auxVars>>

\* ------------------------------------------------------------ basic values
None == <<>>
Some(x) == <<x>>

Extent2D(w, h) == [width |-> w, height |-> h]
IsZeroSize(e) == e.width <= 0 \/ e.height <= 0
\* Window sizes: every width up to the bound at height one, and the sizes
\* with no width, no height, or neither (a minimised window).
NonZeroExtents == { Extent2D(w, 1) : w \in 1 .. MaxWidth }
ZeroExtents == { Extent2D(0, 0), Extent2D(0, 1), Extent2D(1, 0) }
Extents == NonZeroExtents \cup ZeroExtents

\* with_inner_size(LogicalSize::new(1280, 720)): the window starts with one
\* given nonzero size, here the largest of the model.
StartSize == Extent2D(MaxWidth, 1)

RECURSIVE SumOver(_, _)
SumOver(f, S) == IF S = {} THEN 0
                 ELSE LET s == CHOOSE x \in S : TRUE IN f[s] + SumOver(f, S \ {s})
Total(f) == SumOver(f, DOMAIN f)

\* `n as f32`: round a u32 to the nearest value with a 24-bit mantissa
\* (ties to even).
F32Ulp(n) == IF n < 16777216 THEN 1
             ELSE IF n < 33554432 THEN 2
             ELSE IF n < 67108864 THEN 4
             ELSE IF n < 134217728 THEN 8
             ELSE IF n < 268435456 THEN 16
             ELSE IF n < 536870912 THEN 32
             ELSE IF n < 1073741824 THEN 64
             ELSE 128
as_f32(n) == LET u == F32Ulp(n)
                 q == n \div u
                 r == n % u
             IN IF 2 * r < u THEN q * u
                ELSE IF 2 * r > u THEN (q + 1) * u
                ELSE IF q % 2 = 0 THEN q * u ELSE (q + 1) * u

clamp(v, lo, hi) == IF v < lo THEN lo ELSE IF v > hi THEN hi ELSE v

\* The indices of the images of a swapchain.
Images == 0 .. (NumImages - 1)

\* ------------------------------------------------------------ the tick log
NoTick == [op |-> "none", waits |-> 0, acquire |-> "none", submits |-> 0,
           present |-> "none", rebuild |-> "none", rebuild_at |-> "none",
           in_use |-> 0, cb_busy |-> 0, target |-> "none", result |-> "Ok"]
Tick(op) == [NoTick EXCEPT !.op = op]

\* ------------------------------------------------------- the device (GPU)
NoWork(S) == [s \in S |-> 0]

\* A submission retires: its command buffer has finished executing, and the
\* fence handed to the submission (if it is the slot's latest) is signaled.
RetireFences(f, s, q) ==
    [f EXCEPT ![s] = IF f[s] = "pending" /\ q[s] = 1 THEN "signaled" ELSE f[s]]


\* The device-idle wait: when it returns, every submission has retired and
\* every fence handed to a submission is signaled.
wait_for_idle_fences(f) == [s \in DOMAIN f |-> IF f[s] = "pending" THEN "signaled" ELSE f[s]]
wait_for_idle(q) == NoWork(DOMAIN q)

\* ------------------------------------------------------ swapchain creation
\* Surface capabilities as queried when a swapchain is created.
surface_capabilities(win) ==
    [current_extent   |-> IF fixed_extent THEN win ELSE Extent2D(U32Max, U32Max),
     min_image_extent |-> Extent2D(1, 1),
     max_image_extent |-> Extent2D(MaxWidth, 1)]

\* A variant of select_extent: the preferred extent is used as it is.
select_extent_Unclamped(capabilities, preferred_extent) ==
    IF capabilities.current_extent.width # U32Max
    THEN capabilities.current_extent
    ELSE preferred_extent

select_extent(capabilities, preferred_extent) ==
    IF capabilities.current_extent.width # U32Max
    THEN capabilities.current_extent
    ELSE Extent2D(clamp(preferred_extent.width,
                        capabilities.min_image_extent.width,
                        capabilities.max_image_extent.width),
                  clamp(preferred_extent.height,
                        capabilities.min_image_extent.height,
                        capabilities.max_image_extent.height))

SwapchainCtx_new(extent) ==
    [swapchain_extent |-> select_extent(surface_capabilities(extent), extent),
     image_views      |-> [i \in Images |-> i]]

PipelineCtx_new(sc) ==
    [viewport |-> [x |-> 0, y |-> 0,
                   width  |-> as_f32(sc.swapchain_extent.width),
                   height |-> as_f32(sc.swapchain_extent.height)],
     scissor  |-> sc.swapchain_extent]

\* A variant of FramebufferCtx_new: one framebuffer, for the first view.
FramebufferCtx_new_FirstViewOnly(sc) ==
    [framebuffers |-> [i \in {0} |-> [attachment |-> sc.image_views[i],
                                      width  |-> sc.swapchain_extent.width,
                                      height |-> sc.swapchain_extent.height]]]

\* FramebufferCtx::new: one framebuffer per image view, of the swapchain's
\* extent.
FramebufferCtx_new(sc) ==
    [framebuffers |-> [i \in DOMAIN sc.image_views |->
                          [attachment |-> sc.image_views[i],
                           width  |-> sc.swapchain_extent.width,
                           height |-> sc.swapchain_extent.height]]]

SizedRenderer_new(extent) ==
    LET sc == SwapchainCtx_new(extent)
    IN [swapchain |-> sc, pipeline |-> PipelineCtx_new(sc),
        framebuffer |-> FramebufferCtx_new(sc), render_area |-> extent]

\* ------------------------------------------------- render.rs : Renderer
Slots == 0 .. (max_frames_in_flight - 1)

\* The viewport baked into the current pipeline, if there is a pipeline.
RenderViewport(sr) == IF sr = None THEN None ELSE Some(sr[1].pipeline.viewport)

\* The match on the result of acquire_next_image.
acquire_match(acquire_result) ==
    CASE acquire_result = "Success"    -> "image"
      [] acquire_result = "Suboptimal" -> "image"
      [] acquire_result = "OutOfDate"  -> "recreate"
      [] OTHER                         -> "bail"

\* A variant of FencesAtAcquire: the fence is reset right after the wait,
\* before the image is acquired.
FencesAtAcquire_ResetBeforeAcquire ==
    [in_flight_fences EXCEPT ![current_frame_in_flight] = "reset"]

\* The fences at the point where acquire_next_image returns: the fence that
\* was waited on has not been reset yet.
FencesAtAcquire == in_flight_fences

AcquireResults == {"Success", "Suboptimal", "OutOfDate", "Error"}
PresentResults == {"Success", "Suboptimal", "OutOfDate", "Error"}
CreateResults  == {"Ok", "Error"}

\* A variant of recreate_sized_renderer: only the width is tested.
recreate_sized_renderer_WidthOnly(old, inner_size, made) ==
    IF inner_size.width <= 0
    THEN None
    ELSE IF made = "Ok" THEN Some(SizedRenderer_new(inner_size)) ELSE old

\* A variant of recreate_sized_renderer: the old sized renderer is dropped
\* before the new one is created.
recreate_sized_renderer_DropsFirst(old, inner_size, made) ==
    IF inner_size.width <= 0 \/ inner_size.height <= 0
    THEN None
    ELSE IF made = "Ok" THEN Some(SizedRenderer_new(inner_size)) ELSE None

\* recreate_sized_renderer, the value it leaves in self.sized_renderer.
\* `made` is the outcome of SizedRenderer::new when it is called.
recreate_sized_renderer(old, inner_size, made) ==
    IF inner_size.width <= 0 \/ inner_size.height <= 0
    THEN None
    ELSE IF made = "Ok" THEN Some(SizedRenderer_new(inner_size)) ELSE old

\* What a rebuild attempt reports in the tick log.
RebuildOutcome(inner_size, made) ==
    IF IsZeroSize(inner_size) THEN "Zero" ELSE made

\* The whole of recreate_sized_renderer as a step from fences f and device
\* queue q (the state just before the call).
Recreate(f, q, made, at, entry) ==
    /\ in_flight_fences' = wait_for_idle_fences(f)
    /\ inflight' = wait_for_idle(q)
    /\ sized_renderer' = recreate_sized_renderer(sized_renderer, window, made)
    /\ LET out == RebuildOutcome(window, made)
       IN /\ resize_needed' = IF out = "Error" THEN resize_needed ELSE FALSE
          /\ failed' = (out = "Error")
          /\ last' = [entry EXCEPT !.rebuild = out, !.rebuild_at = at,
                                   !.in_use = Total(wait_for_idle(q)),
                                   !.result = IF out = "Error" THEN "Err" ELSE "Ok"]

\* Renderer::resize
resize ==
    /\ variant = "render" /\ ~failed
    /\ eventQueued
    /\ eventQueued' = FALSE
    /\ resize_needed' = TRUE
    /\ UNCHANGED <<variant, window, fixed_extent, failed, inflight, last, original>>
    /\ UNCHANGED auxVars
    /\ UNCHANGED <<sized_renderer, current_frame_in_flight, in_flight_fences>>
    /\ UNCHANGED <<ctxVars, mainVars>>

RenderGuard ==
    /\ variant = "render" /\ ~failed
    /\ UNCHANGED <<variant, window, eventQueued, fixed_extent, original>>
    /\ UNCHANGED auxVars
    /\ UNCHANGED <<current_frame_in_flight, ctxVars, mainVars>>

\* render(): no sized renderer, return at once.
RenderNone ==
    /\ RenderGuard
    /\ sized_renderer = None
    /\ last' = Tick("render")
    /\ UNCHANGED <<failed, inflight, sized_renderer, resize_needed, in_flight_fences>>

\* The fence wait at the top of render() returns once the fence is signaled.
FenceWaitReturns == in_flight_fences[current_frame_in_flight] = "signaled"

\* render(): acquire fails with an error other than OUT_OF_DATE.
RenderAcquireError ==
    /\ RenderGuard
    /\ sized_renderer # None /\ FenceWaitReturns
    /\ \E acq \in AcquireResults :
          /\ acquire_match(acq) = "bail"
          /\ last' = [Tick("render") EXCEPT !.waits = 1, !.acquire = acq, !.result = "Err"]
    /\ failed' = TRUE
    /\ in_flight_fences' = FencesAtAcquire
    /\ UNCHANGED <<inflight, sized_renderer, resize_needed>>

\* render(): acquire reports OUT_OF_DATE; rebuild and return.
RenderOutOfDate ==
    /\ RenderGuard
    /\ sized_renderer # None /\ FenceWaitReturns
    /\ \E acq \in AcquireResults, made \in CreateResults :
          /\ acquire_match(acq) = "recreate"
          /\ Recreate(FencesAtAcquire, inflight, made, "after_acquire",
                      [Tick("render") EXCEPT !.waits = 1, !.acquire = acq])

\* render(): the fence is reset, then queue_submit fails.
RenderSubmitError ==
    /\ RenderGuard
    /\ sized_renderer # None /\ FenceWaitReturns
    /\ \E acq \in AcquireResults :
          /\ acquire_match(acq) = "image"
          /\ last' = [Tick("render") EXCEPT !.waits = 1, !.acquire = acq, !.result = "Err"]
    /\ in_flight_fences' = [in_flight_fences EXCEPT ![current_frame_in_flight] = "reset"]
    /\ failed' = TRUE
    /\ UNCHANGED <<inflight, sized_renderer, resize_needed>>

\* The fences and the device queue after reset_fences and queue_submit.
SubmittedFences == [in_flight_fences EXCEPT ![current_frame_in_flight] = "pending"]
SubmittedWork == [inflight EXCEPT ![current_frame_in_flight] = @ + 1]

\* The match on the result of queue_present: needs_rebuild, and the arm
\* that bails.
needs_rebuild(present_result, flag) ==
    CASE present_result = "Success"    -> flag
      [] present_result = "Suboptimal" -> TRUE
      [] present_result = "OutOfDate"  -> TRUE
      [] OTHER                         -> FALSE

\* A variant of present_bails: OUT_OF_DATE from present is not caught.
present_bails_OutOfDateToo(present_result) ==
    present_result \notin {"Success", "Suboptimal"}

present_bails(present_result) ==
    present_result \notin {"Success", "Suboptimal", "OutOfDate"}

\* buffers[current_frame_in_flight] is submitted; SizedRenderer::new recorded
\* buffer i against framebuffer i, the framebuffer of image view i.  Whether
\* that is the image acquire_next_image returned.
TargetOf(image_index) ==
    IF current_frame_in_flight = image_index THEN "acquired" ELSE "other"

\* render(): the frame is submitted, queue_present fails with another error.
RenderPresentError ==
    /\ RenderGuard
    /\ sized_renderer # None /\ FenceWaitReturns
    /\ \E acq \in AcquireResults, image_index \in Images, pres \in PresentResults :
          /\ acquire_match(acq) = "image"
          /\ present_bails(pres)
          /\ last' = [Tick("render") EXCEPT !.waits = 1, !.acquire = acq, !.submits = 1,
                                            !.cb_busy = inflight[current_frame_in_flight],
                                            !.target = TargetOf(image_index),
                                            !.present = pres, !.result = "Err"]
    /\ in_flight_fences' = SubmittedFences
    /\ inflight' = SubmittedWork
    /\ failed' = TRUE
    /\ UNCHANGED <<sized_renderer, resize_needed>>

\* render(): the frame is submitted and presented; rebuild if needed.
RenderFrame ==
    /\ RenderGuard
    /\ sized_renderer # None /\ FenceWaitReturns
    /\ \E acq \in AcquireResults, image_index \in Images, pres \in PresentResults :
          /\ acquire_match(acq) = "image"
          /\ ~present_bails(pres)
          /\ LET entry == [Tick("render") EXCEPT
                              !.waits = 1, !.acquire = acq, !.submits = 1, !.present = pres,
                              !.cb_busy = inflight[current_frame_in_flight],
                              !.target = TargetOf(image_index)]
             IN IF needs_rebuild(pres, resize_needed)
                THEN \E made \in CreateResults :
                        Recreate(SubmittedFences, SubmittedWork, made, "after_present", entry)
                ELSE /\ last' = entry
                     /\ in_flight_fences' = SubmittedFences
                     /\ inflight' = SubmittedWork
                     /\ UNCHANGED <<failed, sized_renderer, resize_needed>>


\* ------------------------------------------------- ctx.rs : PresentCtx::run

\* Viewport.dimensions: window.inner_size().into()
ViewportDimensions(size) == <<as_f32(size.width), as_f32(size.height)>>

\* Swapchain::new / Swapchain::recreate never yields a swapchain with a zero
\* extent; for other sizes every outcome is possible.
RecreateResults(size) ==
    IF IsZeroSize(size) THEN {"ImageExtentNotSupported", "Error"}
    ELSE {"Ok", "ImageExtentNotSupported", "Error"}

NeedRecreate == window_resized \/ recreate_swapchain

\* The swapchain after the rebuild block has run to its end.
RecreatedSwapchain ==
    IF NeedRecreate
    THEN [image_extent |-> window]
    ELSE swapchain

\* self.viewport after the rebuild block has run to its end.
RecreatedViewport ==
    IF NeedRecreate /\ window_resized
    THEN [viewport EXCEPT !.dimensions = ViewportDimensions(window)]
    ELSE viewport

\* self.command_buffers after the rebuild block has run to its end: they are
\* recorded again only on the window_resized path.
RecreatedCommandBuffers ==
    IF NeedRecreate
    THEN IF window_resized
         THEN [framebuffers |-> "current", viewport |-> RecreatedViewport]
         ELSE [command_buffers EXCEPT !.framebuffers = "replaced"]
    ELSE command_buffers

\* The tick log after the rebuild block has run to its end.
RecreatedEntry ==
    IF NeedRecreate
    THEN [Tick("MainEventsCleared") EXCEPT !.rebuild = "Ok", !.rebuild_at = "before_acquire"]
    ELSE Tick("MainEventsCleared")

\* WindowEvent::Resized / WindowEvent::ScaleFactorChanged
WindowEventResized ==
    /\ variant = "ctx" /\ ~failed
    /\ eventQueued
    /\ eventQueued' = FALSE
    /\ window_resized' = TRUE
    /\ UNCHANGED <<variant, window, fixed_extent, failed, inflight, last, original>>
    /\ UNCHANGED auxVars
    /\ UNCHANGED <<swapchain, viewport, command_buffers, recreate_swapchain, fences, lost>>
    /\ UNCHANGED <<renderVars, mainVars>>

CtxGuard ==
    /\ variant = "ctx" /\ ~failed
    /\ UNCHANGED <<variant, window, eventQueued, fixed_extent, original>>
    /\ UNCHANGED auxVars
    /\ UNCHANGED <<renderVars, mainVars>>

\* MainEventsCleared: the rebuild fails with ImageExtentNotSupported; return.
CtxRecreateNotSupported ==
    /\ CtxGuard
    /\ NeedRecreate
    /\ "ImageExtentNotSupported" \in RecreateResults(window)
    /\ recreate_swapchain' = FALSE
    /\ last' = [Tick("MainEventsCleared") EXCEPT !.rebuild = "ImageExtentNotSupported",
                                                 !.rebuild_at = "before_acquire"]
    /\ UNCHANGED <<failed, inflight, swapchain, viewport, command_buffers,
                   window_resized, fences, lost>>

\* MainEventsCleared: the rebuild fails with another error; panic.
CtxRecreatePanic ==
    /\ CtxGuard
    /\ NeedRecreate
    /\ "Error" \in RecreateResults(window)
    /\ recreate_swapchain' = FALSE
    /\ failed' = TRUE
    /\ last' = [Tick("MainEventsCleared") EXCEPT !.rebuild = "Error",
                                                 !.rebuild_at = "before_acquire",
                                                 !.result = "Err"]
    /\ UNCHANGED <<inflight, swapchain, viewport, command_buffers,
                   window_resized, fences, lost>>

\* The rebuild block was skipped or ran to its end.
CtxRebuilt ==
    /\ NeedRecreate => "Ok" \in RecreateResults(window)
    /\ swapchain' = RecreatedSwapchain
    /\ viewport' = RecreatedViewport
    /\ command_buffers' = RecreatedCommandBuffers
    /\ window_resized' = FALSE

\* MainEventsCleared: acquire_next_image reports OutOfDate; return.
CtxAcquireOutOfDate ==
    /\ CtxGuard
    /\ CtxRebuilt
    /\ recreate_swapchain' = TRUE
    /\ last' = [RecreatedEntry EXCEPT !.acquire = "OutOfDate"]
    /\ UNCHANGED <<failed, inflight, fences, lost>>

\* MainEventsCleared: acquire_next_image fails with another error; panic.
CtxAcquirePanic ==
    /\ CtxGuard
    /\ CtxRebuilt
    /\ recreate_swapchain' = FALSE
    /\ failed' = TRUE
    /\ last' = [RecreatedEntry EXCEPT !.acquire = "Error", !.result = "Err"]
    /\ UNCHANGED <<inflight, fences, lost>>

\* MainEventsCleared: an image is acquired, the image's fence is waited for,
\* then_execute refuses the command buffer; unwrap panics.
CtxExecutePanic ==
    /\ CtxGuard
    /\ CtxRebuilt
    /\ \E image_i \in Images, acq \in {"Success", "Suboptimal"} :
          /\ fences[image_i] # "pending"
          /\ recreate_swapchain' = (acq = "Suboptimal")
          /\ last' = [RecreatedEntry EXCEPT
                         !.waits = IF fences[image_i] = "none" THEN 0 ELSE 1,
                         !.acquire = acq, !.result = "Err"]
    /\ failed' = TRUE
    /\ UNCHANGED <<inflight, fences, lost>>

\* fences[image_i] after then_signal_fence_and_flush returned `flush`.
FlushedFence(flush) == IF flush = "Ok" THEN "pending" ELSE "none"

\* Whether the chain execute -> present -> signal-fence queued the command
\* buffer.  OutOfDate is the present step's error, raised after the execute
\* step was queued; for any other error either is possible.
FlushQueued(flush) ==
    CASE flush = "Ok"        -> {TRUE}
      [] flush = "OutOfDate" -> {TRUE}
      [] OTHER               -> {TRUE, FALSE}

\* MainEventsCleared: an image is acquired and the frame is flushed.  The
\* fence of the image, when there is one, is waited for first; a submission
\* whose flush fails leaves no fence behind.
CtxFrame ==
    /\ CtxGuard
    /\ CtxRebuilt
    /\ \E image_i \in Images, acq \in {"Success", "Suboptimal"},
          flush \in {"Ok", "OutOfDate", "Error"} :
          \E queued \in FlushQueued(flush) :
             /\ fences[image_i] # "pending"
             /\ recreate_swapchain' = (acq = "Suboptimal" \/ flush = "OutOfDate")
             /\ fences' = [fences EXCEPT ![image_i] = FlushedFence(flush)]
             /\ inflight' = [inflight EXCEPT ![image_i] = IF flush = "Ok" THEN 1 ELSE 0]
             /\ lost' = [lost EXCEPT ![image_i] =
                            IF fences[image_i] = "signaled" THEN queued /\ flush # "Ok"
                            ELSE @ \/ (queued /\ flush # "Ok")]
             /\ last' = [RecreatedEntry EXCEPT
                            !.waits = IF fences[image_i] = "none" THEN 0 ELSE 1,
                            !.acquire = acq,
                            !.submits = IF queued THEN 1 ELSE 0,
                            !.target = IF ~queued THEN "none"
                                       ELSE IF RecreatedCommandBuffers.framebuffers = "current"
                                       THEN "acquired" ELSE "other",
                            !.present = IF flush = "Ok" THEN "Success" ELSE flush,
                            !.cb_busy = IF queued /\ fences[image_i] = "none" /\ lost[image_i]
                                        THEN 1 ELSE 0]
    /\ UNCHANGED failed

\* ------------------------------------------------- main.rs : main
FenceSlots == 0 .. (fences_len - 1)

MainGuard ==
    /\ variant = "main" /\ ~failed
    /\ UNCHANGED <<variant, window, eventQueued, fixed_extent, original>>
    /\ UNCHANGED auxVars
    /\ UNCHANGED <<renderVars, ctxVars>>

\* wait_fences on fences[fence_index], when there is one, has returned.
MainFenceWaitReturns == main_fences[fence_index] \in {"none", "signaled"}

\* fences after `if let Some(fence) { wait_fences; reset_fences }`.
WaitedAndReset ==
    [main_fences EXCEPT ![fence_index] = IF @ = "none" THEN "none" ELSE "reset"]

MainWaits == IF main_fences[fence_index] = "none" THEN 0 ELSE 1

\* RedrawRequested: acquire_image (or the encoding that follows it) fails.
MainAcquireError ==
    /\ MainGuard
    /\ MainFenceWaitReturns
    /\ main_fences' = WaitedAndReset
    /\ failed' = TRUE
    /\ last' = [Tick("RedrawRequested") EXCEPT !.waits = MainWaits, !.acquire = "Error",
                                               !.result = "Err"]
    /\ UNCHANGED <<inflight, fence_index, non_optimal_count, surface>>

\* fence_index += 1; fence_index %= fences_len
NextFenceIndex == (fence_index + 1) % fences_len

\* RedrawRequested: the fence is taken or created, then queue.submit fails.
MainSubmitError ==
    /\ MainGuard
    /\ MainFenceWaitReturns
    /\ \E acq \in {"Success", "Suboptimal"} :
          last' = [Tick("RedrawRequested") EXCEPT !.waits = MainWaits, !.acquire = acq,
                                                  !.result = "Err"]
    /\ main_fences' = [main_fences EXCEPT ![fence_index] = "reset"]
    /\ fence_index' = NextFenceIndex
    /\ failed' = TRUE
    /\ UNCHANGED <<inflight, non_optimal_count, surface>>

\* The fences and the device queue after queue.submit.
MainSubmittedFences == [main_fences EXCEPT ![fence_index] = "pending"]
MainSubmittedWork == [inflight EXCEPT ![fence_index] = @ + 1]

\* non_optimal_count after `if !image.is_optimal() { non_optimal_count += 1 }`
CountedNonOptimal(acq) ==
    IF acq = "Suboptimal" THEN non_optimal_count + 1 ELSE non_optimal_count

\* out_of_date, from the result of queue.present
out_of_date(present_result) ==
    CASE present_result = "OutOfDate" -> TRUE
      [] OTHER                        -> FALSE

\* A variant of UpdateNeeded: the count has to exceed the limit.
UpdateNeeded_AboveLimit(acq, present_result) ==
    out_of_date(present_result) \/ CountedNonOptimal(acq) > non_optimal_limit

\* The condition of the surface update.
UpdateNeeded(acq, present_result) ==
    out_of_date(present_result) \/ CountedNonOptimal(acq) >= non_optimal_limit

\* RedrawRequested: the frame is submitted, queue.present fails with an error
\* other than OutOfDate.
MainPresentError ==
    /\ MainGuard
    /\ MainFenceWaitReturns
    /\ \E acq \in {"Success", "Suboptimal"} :
          /\ last' = [Tick("RedrawRequested") EXCEPT
                         !.waits = MainWaits, !.acquire = acq, !.submits = 1,
                         !.cb_busy = inflight[fence_index], !.target = "acquired",
                         !.present = "Error", !.result = "Err"]
          /\ non_optimal_count' = CountedNonOptimal(acq)
    /\ main_fences' = MainSubmittedFences
    /\ inflight' = MainSubmittedWork
    /\ fence_index' = NextFenceIndex
    /\ failed' = TRUE
    /\ UNCHANGED surface

\* RedrawRequested: the frame is submitted and presented; the surface is
\* updated when present reported OutOfDate or the count reached the limit.
\* main calls surface.update() with no wait on the device or on the fences;
\* whether the library drains the device inside update() is not decided by
\* this repository, so both are possible (`drained`).
MainFrame ==
    /\ MainGuard
    /\ MainFenceWaitReturns
    /\ \E acq \in {"Success", "Suboptimal"},
          pres \in {"Success", "Suboptimal", "OutOfDate"},
          updated \in {"Ok", "Error"}, drained \in BOOLEAN :
          LET entry == [Tick("RedrawRequested") EXCEPT
                           !.waits = MainWaits, !.acquire = acq, !.submits = 1,
                           !.cb_busy = inflight[fence_index], !.target = "acquired",
                           !.present = pres]
              work == IF drained THEN wait_for_idle(MainSubmittedWork)
                      ELSE MainSubmittedWork
          IN IF UpdateNeeded(acq, pres)
             THEN /\ failed' = (updated = "Error")
                  /\ surface' = IF updated = "Ok"
                                THEN [swapchain |-> 1 - surface.swapchain, views |-> 0]
                                ELSE surface
                  /\ non_optimal_count' = IF updated = "Ok" THEN 0 ELSE CountedNonOptimal(acq)
                  /\ inflight' = work
                  /\ main_fences' = IF drained THEN wait_for_idle_fences(MainSubmittedFences)
                                    ELSE MainSubmittedFences
                  /\ last' = [entry EXCEPT !.rebuild = updated, !.rebuild_at = "after_present",
                                           !.in_use = Total(work),
                                           !.result = IF updated = "Ok" THEN "Ok" ELSE "Err"]
             ELSE /\ updated = "Ok" /\ ~drained
                  /\ failed' = FALSE
                  /\ surface' = [surface EXCEPT !.views = 1]
                  /\ non_optimal_count' = CountedNonOptimal(acq)
                  /\ inflight' = MainSubmittedWork
                  /\ main_fences' = MainSubmittedFences
                  /\ last' = entry
    /\ fence_index' = NextFenceIndex

\* ------------------------- ctx/swapchain.rs : DeviceCtx::create_swapchain_ctx
SurfaceFormatKHR(f, cs) == [format |-> f, color_space |-> cs]
Formats == {"UNDEFINED", "B8G8R8A8_UNORM", "R8G8B8A8_UNORM"}
ColorSpaces == {"SRGB_NONLINEAR", "EXTENDED_SRGB_LINEAR"}
SurfaceFormats == { SurfaceFormatKHR(f, cs) : f \in Formats, cs \in ColorSpaces }
PresentModes == {"IMMEDIATE", "MAILBOX", "FIFO", "FIFO_RELAXED"}

\* Non-empty lists of at most n elements of S.
ListsUpTo(S, n) == UNION { [1 .. k -> S] : k \in 1 .. n }

\* slice.contains(&x)
contains(list, x) == \E i \in 1 .. Len(list) : list[i] = x

\* A variant of select_surface_format: the list is not searched.
select_surface_format_FirstOnly(available_formats) ==
    IF Len(available_formats) = 1 /\ available_formats[1].format = "UNDEFINED"
    THEN SurfaceFormatKHR("B8G8R8A8_UNORM", "SRGB_NONLINEAR")
    ELSE available_formats[1]

\* A variant of select_surface_format: a format other than the one of the
\* current swapchain is preferred.
select_surface_format_AvoidsCurrent(available_formats) ==
    LET other == { i \in 1 .. Len(available_formats) :
                     swapchain_ctx # None /\
                     available_formats[i].format # swapchain_ctx[1].swapchain_image_format }
    IN IF other # {}
       THEN available_formats[CHOOSE i \in other : \A j \in other : i <= j]
       ELSE available_formats[1]

select_surface_format(available_formats) ==
    IF Len(available_formats) = 1 /\ available_formats[1].format = "UNDEFINED"
    THEN SurfaceFormatKHR("B8G8R8A8_UNORM", "SRGB_NONLINEAR")
    ELSE LET found == { i \in 1 .. Len(available_formats) :
                          /\ available_formats[i].format = "B8G8R8A8_UNORM"
                          /\ available_formats[i].color_space = "SRGB_NONLINEAR" }
         IN IF found # {}
            THEN available_formats[CHOOSE i \in found : \A j \in found : i <= j]
            ELSE available_formats[1]

\* A variant of select_surface_present_mode: FIFO is tried first.
select_surface_present_mode_FifoFirst(available_present_modes) ==
    IF contains(available_present_modes, "FIFO") THEN "FIFO"
    ELSE IF contains(available_present_modes, "MAILBOX") THEN "MAILBOX"
    ELSE "IMMEDIATE"

select_surface_present_mode(available_present_modes) ==
    IF contains(available_present_modes, "MAILBOX") THEN "MAILBOX"
    ELSE IF contains(available_present_modes, "FIFO") THEN "FIFO"
    ELSE "IMMEDIATE"

\* A variant of image_count: the maximum is not looked at.
image_count_IgnoresMax(capabilities) == capabilities.min_image_count + 1

\* let image_count = { ... }
image_count(capabilities) ==
    LET max == capabilities.max_image_count
        preferred == capabilities.min_image_count + 1
    IN IF max = 0 \/ preferred <= max THEN preferred ELSE max

\* &self.physical_info.swapchain_support_details
support_details == physical_info.swapchain_support_details

\* The SwapchainCreateInfoKHR built from the cached support details.
create_info(preferred_extent) ==
    LET format == select_surface_format(support_details.formats)
    IN [min_image_count   |-> image_count(support_details.capabilities),
        image_format      |-> format.format,
        image_color_space |-> format.color_space,
        image_extent      |-> select_extent(support_details.capabilities, preferred_extent),
        present_mode      |-> select_surface_present_mode(support_details.present_modes)]

\* images.iter().map(|image| create_image_view(...)).collect()
image_views(images, format) ==
    [i \in 1 .. Len(images) |-> [image |-> images[i], format |-> format]]

\* The SwapchainCtx returned when every Vulkan call succeeds; `images` is
\* what get_swapchain_images returned.
create_swapchain_ctx(preferred_extent, images) ==
    LET info == create_info(preferred_extent)
    IN [images                 |-> images,
        image_views            |-> image_views(images, info.image_format),
        swapchain_image_format |-> info.image_format,
        swapchain_extent       |-> info.image_extent]

\* The log of a call: its argument, the create_info it built, its result,
\* and the same three of the call before it.
CallOf(c) == [preferred_extent |-> c.preferred_extent, create_info |-> c.create_info,
              result |-> c.result]
NoCall == [preferred_extent |-> Extent2D(0, 0), create_info |-> None, result |-> "none",
           before |-> [preferred_extent |-> Extent2D(0, 0), create_info |-> None,
                       result |-> "none"]]

\* The preferred extents a caller passes: the size of a window, minimised
\* or not.
PreferredExtents == NonZeroExtents \cup {Extent2D(0, 0)}

\* The images a driver returns: at least the count asked for.
ImagesReturned(info) ==
    { [i \in 1 .. n |-> i] : n \in info.min_image_count .. (info.min_image_count + 1) }

SwapGuard ==
    /\ variant = "swapchain"
    /\ UNCHANGED <<envVars, renderVars, ctxVars, mainVars, physical_info>>
    /\ UNCHANGED <<physical_devices, device_ctx, strong, dropping, teardown>>

\* create_swapchain_ctx returns Ok.
CreateSwapchainCtx ==
    /\ SwapGuard
    /\ \E preferred_extent \in PreferredExtents :
          \E images \in ImagesReturned(create_info(preferred_extent)) :
             /\ swapchain_ctx' = Some(create_swapchain_ctx(preferred_extent, images))
             /\ created' = [preferred_extent |-> preferred_extent,
                            create_info |-> Some(create_info(preferred_extent)),
                            result |-> "Ok", before |-> CallOf(created)]

\* create_swapchain_ctx returns Err: create_swapchain, get_swapchain_images
\* or create_image_view failed.
CreateSwapchainCtxError ==
    /\ SwapGuard
    /\ \E preferred_extent \in PreferredExtents :
          created' = [preferred_extent |-> preferred_extent,
                      create_info |-> Some(create_info(preferred_extent)),
                      result |-> "Err", before |-> CallOf(created)]
    /\ UNCHANGED swapchain_ctx

\* ------------------------------ ctx/overall.rs : OverallCtx, device selection
\* A queue family as the device reports it, with the answer
\* get_physical_device_surface_support gives for it.
QueueFamilyProperties ==
    [queue_count : {0, 1}, graphics : BOOLEAN, present_support : BOOLEAN]

\* The loop of find_queue_families from position k of the filtered list
\* (index k - 1 of enumerate()); the surface support is asked of the device
\* for that index.
RECURSIVE find_queue_families_from(_, _, _, _, _)
find_queue_families_from(props, filtered, k, graphics, present) ==
    IF k > Len(filtered)
    THEN None
    ELSE LET index == k - 1
             g == IF filtered[k].graphics /\ graphics = None THEN Some(index)
                  ELSE graphics
             p == IF props[index + 1].present_support /\ present = None THEN Some(index)
                  ELSE present
         IN IF g # None /\ p # None
            THEN Some(<<g[1], p[1]>>)
            ELSE find_queue_families_from(props, filtered, k + 1, g, p)

IsUsable(f) == f.queue_count > 0

find_queue_families(props) ==
    find_queue_families_from(props, SelectSeq(props, IsUsable), 1, None, None)

\* select_physical_device: the first device find_queue_families accepts.
select_physical_device(devices) ==
    LET suitable == { d \in DOMAIN devices : find_queue_families(devices[d]) # None }
    IN IF suitable = {}
       THEN [result |-> "No suitable physical device"]
       ELSE [result |-> "Ok", device |-> CHOOSE d \in suitable : \A e \in suitable : d <= e]

\* OverallCtx::new from the device selection on: select_physical_device,
\* then create_logical_device on the device found, which asks
\* find_queue_families again and creates a queue on each index.
OverallCtxNew ==
    /\ variant = "device" /\ device_ctx = None
    /\ LET selected == select_physical_device(physical_devices)
       IN IF selected.result # "Ok"
          THEN device_ctx' = Some([result |-> selected.result, logical_device |-> FALSE])
          ELSE \E made \in {"Ok", "Error"} :
                  device_ctx' =
                     Some([result |-> made, logical_device |-> made = "Ok",
                           physical_device |-> selected.device,
                           family_indices |->
                              find_queue_families(physical_devices[selected.device])[1]])
    /\ UNCHANGED <<envVars, renderVars, ctxVars, mainVars, swapVars, physical_devices>>
    /\ UNCHANGED <<strong, dropping, teardown>>

\* ------------------------------------- render.rs, vulkan/*.rs : dropping
\* A value is named by its type and a number: the generation of the sized
\* renderer it belongs to, the position in its Vec, or, for the Renderer,
\* the generation of the sized renderer it holds (0 for None).
Vec(name) == [i \in 1 .. max_frames_in_flight |-> <<name, i>>]

\* The fields of SwapchainCtx and CommandBuffersCtx that own another value.
FieldsNotInSources(obj) ==
    CASE obj[1] = "swapchain"       -> << <<"device", 0>> >>
      [] obj[1] = "command_buffers" -> << <<"command_pool", obj[2]>> >>
      [] OTHER                      -> <<>>

\* A variant of Fields: RenderPassCtx keeps no Rc of its swapchain.
Fields_RenderPassOwnsNothing(obj) ==
    LET g == obj[2]
    IN CASE obj[1] = "Renderer" ->
               << <<"device", 0>>, <<"shader", 0>> >>
                  \o (IF g = 0 THEN <<>> ELSE << <<"SizedRenderer", g>> >>)
                  \o Vec("image_available_semaphore")
                  \o Vec("render_finished_semaphore") \o Vec("in_flight_fence")
         [] obj[1] = "SizedRenderer" ->
               << <<"swapchain", g>>, <<"render_pass", g>>, <<"pipeline", g>>,
                  <<"framebuffer", g>> >>
         [] obj[1] = "render_pass" -> <<>>
         [] obj[1] = "pipeline" -> << <<"render_pass", g>>, <<"shader", 0>> >>
         [] obj[1] = "framebuffer" ->
               << <<"render_pass", g>>, <<"command_pool", g>>, <<"command_buffers", g>> >>
         [] obj[1] \in {"command_pool", "shader", "image_available_semaphore",
                        "render_finished_semaphore", "in_flight_fence"} ->
               << <<"device", 0>> >>
         [] OTHER -> FieldsNotInSources(obj)

\* The fields of a value that own another value (Rc, Option, Vec of Rc), in
\* declaration order, which is the order they are dropped in.
Fields(obj) ==
    LET g == obj[2]
    IN CASE obj[1] = "Renderer" ->
               << <<"device", 0>>, <<"shader", 0>> >>
                  \o (IF g = 0 THEN <<>> ELSE << <<"SizedRenderer", g>> >>)
                  \o Vec("image_available_semaphore")
                  \o Vec("render_finished_semaphore") \o Vec("in_flight_fence")
         [] obj[1] = "SizedRenderer" ->
               << <<"swapchain", g>>, <<"render_pass", g>>, <<"pipeline", g>>,
                  <<"framebuffer", g>> >>
         [] obj[1] = "render_pass" -> << <<"swapchain", g>> >>
         [] obj[1] = "pipeline" -> << <<"render_pass", g>>, <<"shader", 0>> >>
         [] obj[1] = "framebuffer" ->
               << <<"render_pass", g>>, <<"command_pool", g>>, <<"command_buffers", g>> >>
         [] obj[1] \in {"command_pool", "shader", "image_available_semaphore",
                        "render_finished_semaphore", "in_flight_fence"} ->
               << <<"device", 0>> >>
         [] OTHER -> FieldsNotInSources(obj)

\* What Drop::drop of a value calls: Renderer waits for the device to be
\* idle, SizedRenderer has no Drop, the others destroy their Vulkan object.
DropCalls(obj) ==
    CASE obj[1] = "Renderer"      -> << <<"wait_for_idle", 0>> >>
      [] obj[1] = "SizedRenderer" -> <<>>
      [] OTHER                    -> <<obj>>

\* The values alive when `roots` are owned in place, and their strong counts.
RECURSIVE Reach(_)
Reach(S) ==
    LET more == S \cup UNION { {Fields(o)[k] : k \in DOMAIN Fields(o)} : o \in S }
    IN IF more = S THEN S ELSE Reach(more)

StrongCounts(roots) ==
    [o \in Reach(roots) |->
        (IF o \in roots THEN 1 ELSE 0)
          + Cardinality(UNION { { <<h, k>> : k \in { j \in DOMAIN Fields(h) :
                                                      Fields(h)[j] = o } } :
                                h \in Reach(roots) })]

DropGuard ==
    /\ variant = "drop" /\ dropping # <<>>
    /\ UNCHANGED <<envVars, renderVars, ctxVars, mainVars, swapVars>>
    /\ UNCHANGED <<physical_devices, device_ctx>>

\* One owner of a value goes away while other Rc of it remain.
DropRc ==
    /\ DropGuard
    /\ strong[Head(dropping)] > 1
    /\ strong' = [strong EXCEPT ![Head(dropping)] = @ - 1]
    /\ dropping' = Tail(dropping)
    /\ UNCHANGED teardown

\* The last owner of a value goes away: Drop::drop runs, then the fields
\* are dropped in declaration order.
DropValue ==
    /\ DropGuard
    /\ strong[Head(dropping)] = 1
    /\ strong' = [strong EXCEPT ![Head(dropping)] = 0]
    /\ teardown' = teardown \o DropCalls(Head(dropping))
    /\ dropping' = Fields(Head(dropping)) \o Tail(dropping)

\* The Renderer goes out of scope after an earlier drop has finished.
DropRenderer ==
    /\ variant = "drop" /\ dropping = <<>>
    /\ \E r \in DOMAIN strong :
          /\ r[1] = "Renderer" /\ strong[r] = 1
          /\ dropping' = <<r>>
    /\ teardown' = <<>>
    /\ UNCHANGED strong
    /\ UNCHANGED <<envVars, renderVars, ctxVars, mainVars, swapVars>>
    /\ UNCHANGED <<physical_devices, device_ctx>>

\* ------------------------------------------------------- the environment
\* The window gets a size (or a scale factor); an event is queued.
WindowChanges ==
    /\ variant \in {"render", "ctx"} /\ ~failed
    /\ \E e \in Extents : window' = e
    /\ eventQueued' = TRUE
    /\ UNCHANGED <<variant, fixed_extent, failed, inflight, last, original>>
    /\ UNCHANGED auxVars
    /\ UNCHANGED <<renderVars, ctxVars, mainVars>>

\* A surface that dictates its extent gets another size, within the image
\* extent limits it reports.
SurfaceResized ==
    /\ variant = "swapchain" /\ fixed_extent
    /\ \E e \in NonZeroExtents :
          /\ e # window
          /\ support_details.capabilities.min_image_extent.width <= e.width
          /\ e.width <= support_details.capabilities.max_image_extent.width
          /\ window' = e
    /\ UNCHANGED <<variant, eventQueued, fixed_extent, failed, inflight, last, original>>
    /\ UNCHANGED <<renderVars, ctxVars, mainVars, auxVars>>

\* The device retires one submission, the oldest of some slot; the fence
\* handed to it, if any, is signaled.
Retire ==
    /\ ~failed
    /\ \E s \in DOMAIN inflight :
          IF variant = "ctx" /\ lost[s]
          THEN /\ lost' = [lost EXCEPT ![s] = FALSE]
               /\ UNCHANGED <<inflight, in_flight_fences, fences, main_fences>>
          ELSE /\ inflight[s] > 0
               /\ inflight' = [inflight EXCEPT ![s] = @ - 1]
               /\ in_flight_fences' = IF variant = "render"
                                      THEN RetireFences(in_flight_fences, s, inflight)
                                      ELSE in_flight_fences
               /\ fences' = IF variant = "ctx"
                            THEN RetireFences(fences, s, inflight) ELSE fences
               /\ main_fences' = IF variant = "main"
                                 THEN RetireFences(main_fences, s, inflight)
                                 ELSE main_fences
               /\ UNCHANGED lost
    /\ UNCHANGED <<variant, window, eventQueued, fixed_extent, failed, last,
                   original>>
    /\ UNCHANGED auxVars
    /\ UNCHANGED <<sized_renderer, resize_needed, current_frame_in_flight>>
    /\ UNCHANGED <<swapchain, viewport, command_buffers, window_resized,
                   recreate_swapchain>>
    /\ UNCHANGED <<fence_index, non_optimal_count, surface>>

\* ------------------------------------------------------------ start-up
\* Renderer::new: the fences are created signaled, then the first
\* recreate_sized_renderer runs.
InitRender ==
    /\ window \in Extents
    /\ fixed_extent \in BOOLEAN
    /\ sized_renderer = recreate_sized_renderer(None, window, "Ok")
    /\ resize_needed = FALSE
    /\ current_frame_in_flight = 0
    /\ in_flight_fences = [s \in Slots |-> "signaled"]
    /\ inflight = NoWork(Slots)
    /\ last = [Tick("new") EXCEPT !.rebuild = RebuildOutcome(window, "Ok"),
                                  !.rebuild_at = "new"]
    /\ original = [window |-> window, viewport |-> RenderViewport(sized_renderer)]

IdleRender ==
    /\ sized_renderer = None
    /\ resize_needed = FALSE
    /\ current_frame_in_flight = 0
    /\ in_flight_fences = [s \in Slots |-> "signaled"]

\* PresentCtx::new and the locals at the top of run.
InitCtx ==
    /\ window = StartSize
    /\ fixed_extent = FALSE
    /\ swapchain = [image_extent |-> window]
    /\ viewport = [origin |-> <<0, 0>>, dimensions |-> ViewportDimensions(window)]
    /\ command_buffers = [framebuffers |-> "current", viewport |-> viewport]
    /\ window_resized = FALSE
    /\ recreate_swapchain = FALSE
    /\ fences = [i \in Images |-> "none"]
    /\ lost = [i \in Images |-> FALSE]
    /\ inflight = NoWork(Images)
    /\ last = NoTick
    /\ original = [window |-> window, viewport |-> Some(command_buffers.viewport)]

IdleCtx ==
    /\ swapchain = [image_extent |-> Extent2D(1, 1)]
    /\ viewport = [origin |-> <<0, 0>>, dimensions |-> <<1, 1>>]
    /\ command_buffers = [framebuffers |-> "current", viewport |-> viewport]
    /\ window_resized = FALSE
    /\ recreate_swapchain = FALSE
    /\ fences = [i \in Images |-> "none"]
    /\ lost = [i \in Images |-> FALSE]

\* The locals of main before event_loop.run.
InitMain ==
    /\ window = StartSize
    /\ fixed_extent = FALSE
    /\ main_fences = [i \in FenceSlots |-> "none"]
    /\ fence_index = 0
    /\ non_optimal_count = 0
    /\ surface = [swapchain |-> 0, views |-> 0]
    /\ inflight = NoWork(FenceSlots)
    /\ last = NoTick
    /\ original = [window |-> window, viewport |-> None]

IdleMain ==
    /\ main_fences = [i \in FenceSlots |-> "none"]
    /\ fence_index = 0
    /\ non_optimal_count = 0
    /\ surface = [swapchain |-> 0, views |-> 0]

\* Surface capabilities a device can report: the current extent is the
\* sentinel or lies within the image extent limits; max_image_count is zero
\* (no limit) or at least min_image_count.
Capabilities ==
    { [current_extent   |-> ce,
       min_image_extent |-> Extent2D(lo, 1),
       max_image_extent |-> Extent2D(hi, 1),
       min_image_count  |-> mn,
       max_image_count  |-> mx] :
         ce \in {Extent2D(U32Max, U32Max)} \cup NonZeroExtents,
         lo \in 1 .. MaxWidth, hi \in 1 .. MaxWidth,
         mn \in 1 .. MaxImageCount, mx \in 0 .. MaxImageCount }

ValidCapabilities ==
    { c \in Capabilities :
        /\ c.min_image_extent.width <= c.max_image_extent.width
        /\ c.current_extent.width = U32Max
             \/ (c.min_image_extent.width <= c.current_extent.width
                   /\ c.current_extent.width <= c.max_image_extent.width)
        /\ c.max_image_count = 0 \/ c.min_image_count <= c.max_image_count }

UsualFormats == <<SurfaceFormatKHR("B8G8R8A8_UNORM", "SRGB_NONLINEAR")>>
UsualPresentModes == <<"FIFO">>
UsualCapabilities ==
    [current_extent   |-> Extent2D(U32Max, U32Max),
     min_image_extent |-> Extent2D(1, 1),
     max_image_extent |-> Extent2D(MaxWidth, 1),
     min_image_count  |-> 2,
     max_image_count  |-> 0]

SwapchainSupportDetails(capabilities, formats, present_modes) ==
    [swapchain_support_details |->
        [capabilities |-> capabilities, formats |-> formats,
         present_modes |-> present_modes]]

\* select_physical_device keeps a device whose format and present mode lists
\* are not empty, with the support details it queried.  One of the three
\* parts ranges over what a device can report, the others are the usual ones.
InitSwapchain ==
    /\ \/ \E f \in ListsUpTo(SurfaceFormats, MaxLen) :
             physical_info = SwapchainSupportDetails(UsualCapabilities, f, UsualPresentModes)
       \/ \E m \in ListsUpTo(PresentModes, MaxLen) :
             physical_info = SwapchainSupportDetails(UsualCapabilities, UsualFormats, m)
       \/ \E c \in ValidCapabilities :
             physical_info = SwapchainSupportDetails(c, UsualFormats, UsualPresentModes)
    /\ fixed_extent = (support_details.capabilities.current_extent.width # U32Max)
    /\ window = IF fixed_extent THEN support_details.capabilities.current_extent
                ELSE StartSize
    /\ inflight = NoWork(Slots)
    /\ last = NoTick
    /\ original = [window |-> window, viewport |-> None]
    /\ swapchain_ctx = None
    /\ created = NoCall

IdleSwapchain ==
    /\ physical_info = SwapchainSupportDetails(UsualCapabilities, UsualFormats,
                                               UsualPresentModes)
    /\ swapchain_ctx = None
    /\ created = NoCall

\* enumerate_physical_devices returns one device, or a second one with a
\* single queue family before or after it.
InitDevice ==
    /\ window = StartSize
    /\ fixed_extent = FALSE
    /\ inflight = NoWork(Slots)
    /\ last = NoTick
    /\ original = [window |-> window, viewport |-> None]
    /\ \E d \in ListsUpTo(QueueFamilyProperties, MaxLen + 1),
          e \in {<<>>} \cup { <<f>> : f \in QueueFamilyProperties }, first \in BOOLEAN :
          physical_devices = IF e = <<>> THEN <<d>>
                             ELSE IF first THEN <<e, d>> ELSE <<d, e>>
    /\ device_ctx = None

IdleDevice ==
    /\ physical_devices = <<>>
    /\ device_ctx = None

\* The drops of render.rs: the Renderer goes out of scope holding a sized
\* renderer or None; `self.sized_renderer = Some(new)` drops the old sized
\* renderer while the Renderer holds the new one; `self.sized_renderer =
\* None` drops it.
InitDrop ==
    /\ window = StartSize
    /\ fixed_extent = FALSE
    /\ inflight = NoWork(Slots)
    /\ last = NoTick
    /\ original = [window |-> window, viewport |-> None]
    /\ \/ \E g \in {0, 1} :
             /\ strong = StrongCounts({<<"Renderer", g>>})
             /\ dropping = << <<"Renderer", g>> >>
       \/ \E g \in {0, 2} :
             /\ strong = StrongCounts({<<"Renderer", g>>, <<"SizedRenderer", 1>>})
             /\ dropping = << <<"SizedRenderer", 1>> >>
    /\ teardown = <<>>

IdleDrop ==
    /\ strong = <<>>
    /\ dropping = <<>>
    /\ teardown = <<>>

Init ==
    /\ variant \in {"render", "ctx", "main", "swapchain", "device", "drop"}
    /\ eventQueued = FALSE
    /\ failed = FALSE
    /\ \/ /\ variant = "render"
          /\ InitRender /\ IdleCtx /\ IdleMain /\ IdleSwapchain /\ IdleDevice /\ IdleDrop
       \/ /\ variant = "ctx"
          /\ IdleRender /\ InitCtx /\ IdleMain /\ IdleSwapchain /\ IdleDevice /\ IdleDrop
       \/ /\ variant = "main"
          /\ IdleRender /\ IdleCtx /\ InitMain /\ IdleSwapchain /\ IdleDevice /\ IdleDrop
       \/ /\ variant = "swapchain"
          /\ IdleRender /\ IdleCtx /\ IdleMain /\ InitSwapchain /\ IdleDevice /\ IdleDrop
       \/ /\ variant = "device"
          /\ IdleRender /\ IdleCtx /\ IdleMain /\ IdleSwapchain /\ InitDevice /\ IdleDrop
       \/ /\ variant = "drop"
          /\ IdleRender /\ IdleCtx /\ IdleMain /\ IdleSwapchain /\ IdleDevice /\ InitDrop

Next ==
    \/ WindowChanges
    \/ Retire
    \/ resize
    \/ RenderNone
    \/ RenderAcquireError
    \/ RenderOutOfDate
    \/ RenderSubmitError
    \/ RenderPresentError
    \/ RenderFrame
    \/ WindowEventResized
    \/ CtxRecreateNotSupported
    \/ CtxRecreatePanic
    \/ CtxAcquireOutOfDate
    \/ CtxAcquirePanic
    \/ CtxExecutePanic
    \/ CtxFrame
    \/ MainAcquireError
    \/ MainSubmitError
    \/ MainPresentError
    \/ MainFrame
    \/ CreateSwapchainCtx
    \/ CreateSwapchainCtxError
    \/ SurfaceResized
    \/ OverallCtxNew
    \/ DropRc
    \/ DropValue
    \/ DropRenderer

Spec == Init /\ [][Next]_vars


\* One specification per prototype, for the properties of one prototype.
NextRender ==
    \/ WindowChanges
    \/ Retire
    \/ resize
    \/ RenderNone
    \/ RenderAcquireError
    \/ RenderOutOfDate
    \/ RenderSubmitError
    \/ RenderPresentError
    \/ RenderFrame

NextCtx ==
    \/ WindowChanges
    \/ Retire
    \/ WindowEventResized
    \/ CtxRecreateNotSupported
    \/ CtxRecreatePanic
    \/ CtxAcquireOutOfDate
    \/ CtxAcquirePanic
    \/ CtxExecutePanic
    \/ CtxFrame

NextMain ==
    \/ Retire
    \/ MainAcquireError
    \/ MainSubmitError
    \/ MainPresentError
    \/ MainFrame

InitOfRender == Init /\ variant = "render"
InitOfCtx == Init /\ variant = "ctx"
InitOfMain == Init /\ variant = "main"
InitOfRenderMain == Init /\ variant \in {"render", "main"}
InitOfRenderCtx == Init /\ variant \in {"render", "ctx"}
InitOfSwapchain == Init /\ variant = "swapchain"

SpecRender == InitOfRender /\ [][NextRender]_vars
SpecCtx == InitOfCtx /\ [][NextCtx]_vars
SpecMain == InitOfMain /\ [][NextMain]_vars
SpecRenderMain == InitOfRenderMain /\ [][NextRender \/ NextMain]_vars
SpecRenderCtx == InitOfRenderCtx /\ [][NextRender \/ NextCtx]_vars

NextSwapchain ==
    \/ CreateSwapchainCtx
    \/ CreateSwapchainCtxError
    \/ SurfaceResized

SpecSwapchain == InitOfSwapchain /\ [][NextSwapchain]_vars

InitOfDevice == Init /\ variant = "device"
SpecDevice == InitOfDevice /\ [][OverallCtxNew]_vars

InitOfDrop == Init /\ variant = "drop"
SpecDrop == InitOfDrop /\ [][DropRc \/ DropValue \/ DropRenderer]_vars

\* The device makes progress: a submission that can retire does retire.
SpecRenderMainFair == SpecRenderMain /\ WF_vars(Retire)

\* Any tick of any prototype.
TickStep ==
    \/ RenderNone \/ RenderAcquireError \/ RenderOutOfDate
    \/ RenderSubmitError \/ RenderPresentError \/ RenderFrame
    \/ CtxRecreateNotSupported \/ CtxRecreatePanic
    \/ CtxAcquireOutOfDate \/ CtxAcquirePanic \/ CtxExecutePanic \/ CtxFrame
    \/ MainAcquireError \/ MainSubmitError \/ MainPresentError \/ MainFrame

\* The calls of one tick in the order the handler makes them; a tick that
\* returns early makes a prefix of them, and a fence that does not exist
\* yet is neither waited for nor reset.
TickOrder ==
    CASE variant = "render" -> <<"wait", "acquire", "reset", "submit", "present">>
      [] variant = "ctx"    -> <<"acquire", "wait", "submit", "present">>
      [] variant = "main"   -> <<"wait", "reset", "acquire", "submit", "present">>
      [] OTHER              -> <<>>

\* ============================================================== properties
RecoverableResults == {"OutOfDate", "Suboptimal"}
RebuildRefused == {"ImageExtentNotSupported", "Error"}

\* The fence the next tick will wait on.
FenceWaitedNext ==
    CASE variant = "render" -> in_flight_fences[current_frame_in_flight]
      [] variant = "main"   -> main_fences[fence_index]
      [] OTHER              -> "none"

\* Submissions that have not retired.
Unretired ==
    IF variant = "ctx"
    THEN Total(inflight) + Cardinality({i \in Images : lost[i]})
    ELSE Total(inflight)

FramesInFlight == IF variant = "ctx" THEN NumImages ELSE max_frames_in_flight

\* The viewport the recorded command buffers draw with.
CurrentViewport ==
    CASE variant = "render" -> RenderViewport(sized_renderer)
      [] variant = "ctx"    -> Some(command_buffers.viewport)
      [] OTHER              -> None

RebuildPending ==
    CASE variant = "render" -> resize_needed
      [] variant = "ctx"    -> window_resized \/ recreate_swapchain
      [] OTHER              -> FALSE

\* C1: in Renderer, a rebuild attempt that saw a zero width or a zero height
\* leaves sized_renderer = None, and a render() call made while
\* sized_renderer is None waits on no fence, acquires no image, submits
\* nothing, presents nothing, touches neither the fences nor the device
\* queue, and leaves sized_renderer None.
C1_ZeroSizeRendersNothing ==
    /\ [](variant = "render" /\ last.rebuild = "Zero" => sized_renderer = None)
    /\ [][(variant = "render" /\ sized_renderer = None /\ TickStep)
             => /\ sized_renderer' = None
                /\ last'.waits = 0 /\ last'.acquire = "none"
                /\ last'.submits = 0 /\ last'.present = "none"
                /\ last'.rebuild = "none"
                /\ inflight' = inflight
                /\ in_flight_fences' = in_flight_fences]_vars

\* C1 witness: render() has been called after a rebuild saw a zero size.
C1_Witness ==
    /\ variant = "render" /\ sized_renderer = None /\ IsZeroSize(window)
    /\ last.op = "render" /\ last.waits = 0 /\ last.submits = 0

\* C2: ZeroSize is not terminal: when sized_renderer is None, the window has
\* a nonzero size and Renderer::resize has delivered the notification, the
\* next render() re-evaluates the extent (it makes a rebuild attempt).
C2_ZeroSizeNotTerminal ==
    [][(variant = "render" /\ sized_renderer = None /\ resize_needed
          /\ ~eventQueued /\ ~IsZeroSize(window) /\ TickStep)
         => last'.rebuild # "none"]_vars

\* C3: while the loop runs, the fence the next tick waits on is signaled, or
\* a submission that will signal it is in the device queue (and, in main,
\* the slot may hold no fence yet); and, the device retiring what it is
\* given, a pending fence becomes signaled, so the wait returns.
C3_FenceWaitReturns ==
    /\ [](~failed =>
            /\ FenceWaitedNext \in {"none", "signaled", "pending"}
            /\ (variant = "render" => FenceWaitedNext # "none")
            /\ (FenceWaitedNext = "pending" =>
                  \E s \in DOMAIN inflight : inflight[s] > 0))
    /\ ((~failed /\ FenceWaitedNext = "pending")
          ~> (failed \/ FenceWaitedNext \in {"none", "signaled"}))

\* C3 witness: a tick of Renderer waited on its fence, acquire reported
\* OutOfDate, nothing was submitted, and the loop goes on.
C3_Witness ==
    /\ variant = "render" /\ ~failed
    /\ last.waits = 1 /\ last.acquire = "OutOfDate" /\ last.rebuild = "Ok"
    /\ FenceWaitedNext = "signaled"

\* C4: every rebuild of swapchain-dependent objects happens when no
\* submitted frame is unretired (Renderer, main).
C4_RebuildWhenIdle ==
    (variant \in {"render", "main"} /\ last.rebuild # "none") => last.in_use = 0

\* C5: a tick whose acquire reports OutOfDate submits and presents nothing;
\* the tick after it, the window having a nonzero size (and its resize
\* notification delivered), reaches the acquire
\* (unless the rebuild itself is refused), and when it renders with success
\* no rebuild is pending afterwards.
C5_OutOfDateRecovers ==
    /\ [](last.acquire = "OutOfDate" => last.submits = 0 /\ last.present = "none")
    /\ [][(variant \in {"render", "ctx"} /\ last.acquire = "OutOfDate"
             /\ ~eventQueued /\ ~IsZeroSize(window) /\ TickStep)
            => /\ last'.rebuild \in RebuildRefused \/ last'.acquire # "none"
               /\ (last'.acquire = "Success" /\ last'.present = "Success"
                     /\ last'.result = "Ok") => ~RebuildPending']_vars

\* C6: when present reports Suboptimal, the frame of that tick was submitted
\* and the swapchain-dependent objects are rebuilt (or the rebuild is
\* pending) before any further acquire (Renderer, main).
C6_SuboptimalPresentRebuilds ==
    (variant \in {"render", "main"} /\ last.present = "Suboptimal")
       => (last.submits = 1 /\ (last.rebuild # "none" \/ RebuildPending))

\* C7: no command buffer is submitted while an earlier submission of it has
\* not retired, and at most F submitted frames are unretired (Renderer,
\* PresentCtx).
C7_FenceBeforeResubmit ==
    variant \in {"render", "ctx"} =>
       /\ last.cb_busy = 0
       /\ Unretired <= FramesInFlight

\* C8: a tick in which acquire or present reported OutOfDate or Suboptimal
\* returns an error only when something else failed in it: the submission,
\* a present with another error, or the rebuild itself (Renderer, main).
C8_RecoverableNeverSurfaces ==
    (variant \in {"render", "main"} /\ last.result = "Err"
       /\ (last.acquire \in RecoverableResults \/ last.present \in RecoverableResults))
      => \/ last.rebuild = "Error"
         \/ last.present = "Error"
         \/ (last.acquire = "Suboptimal" /\ last.submits = 0)

\* C8 witness: present reported OutOfDate, the tick rebuilt and returned Ok.
C8_Witness ==
    /\ variant = "render" /\ ~failed
    /\ last.present = "OutOfDate" /\ last.rebuild = "Ok" /\ last.result = "Ok"

\* C9: in PresentCtx::run, a tick whose rebuild fails with
\* ImageExtentNotSupported acquires, submits and presents nothing, and the
\* rebuild stays pending.
C9_NotSupportedStaysPending ==
    (variant = "ctx" /\ last.rebuild = "ImageExtentNotSupported")
      => /\ last.acquire = "none" /\ last.submits = 0 /\ last.present = "none"
         /\ RebuildPending

\* C10: after a tick that ran with the resize notification delivered and the
\* window at its original size (the rebuild not being refused and the tick
\* not failing), the viewport equals the original viewport.
C10_ViewportRoundTrip ==
    [][(variant \in {"render", "ctx"} /\ ~eventQueued /\ window = original.window
          /\ TickStep /\ ~failed' /\ last'.rebuild \notin RebuildRefused)
         => CurrentViewport' = original.viewport]_vars

\* The arguments and results of the last create_swapchain_ctx call.
Called == variant = "swapchain" /\ created.result # "none"
CapabilitiesUsed == support_details.capabilities
InfoBuilt == created.create_info[1]
FormatBuilt(info) == SurfaceFormatKHR(info.image_format, info.image_color_space)
PreferredFormat == SurfaceFormatKHR("B8G8R8A8_UNORM", "SRGB_NONLINEAR")
Within(v, lo, hi) == lo <= v /\ v <= hi
ClampedTo(got, v, lo, hi) ==
    /\ Within(got, lo, hi)
    /\ (Within(v, lo, hi) => got = v)
    /\ (v < lo => got = lo)
    /\ (v > hi => got = hi)

\* C11: select_extent: with the sentinel current extent the result is the
\* preferred extent clamped, width and height each, to the image extent
\* limits (so it is the preferred extent when that lies within them); with a
\* fixed current extent the result is that extent.
C11_SelectExtent ==
    Called =>
       LET caps == CapabilitiesUsed
           e    == created.preferred_extent
           got  == InfoBuilt.image_extent
       IN IF caps.current_extent = Extent2D(U32Max, U32Max)
          THEN /\ ClampedTo(got.width, e.width,
                            caps.min_image_extent.width, caps.max_image_extent.width)
               /\ ClampedTo(got.height, e.height,
                            caps.min_image_extent.height, caps.max_image_extent.height)
          ELSE got = caps.current_extent

\* C11 witness: a call with the sentinel and a preferred width above the
\* maximum, and a call with a fixed current extent that differs from the
\* preferred one, are both possible; this is the first.
C11_Witness ==
    /\ Called
    /\ CapabilitiesUsed.current_extent.width = U32Max
    /\ created.preferred_extent.width > CapabilitiesUsed.max_image_extent.width
    /\ InfoBuilt.image_extent.width = CapabilitiesUsed.max_image_extent.width

\* C12: after create_swapchain_ctx there is one image view per image, in the
\* same order, and the image count asked for is min_image_count + 1 capped
\* by max_image_count (zero meaning no limit), hence within the limits; with
\* min 2 and max 2 it is 2.
C12_ImageCountAndViews ==
    /\ (Called /\ created.result = "Ok") =>
          LET ctx == swapchain_ctx[1]
          IN /\ Len(ctx.images) = Len(ctx.image_views)
             /\ \A i \in 1 .. Len(ctx.images) : ctx.image_views[i].image = ctx.images[i]
    /\ Called =>
          LET caps == CapabilitiesUsed
              n    == InfoBuilt.min_image_count
          IN /\ n >= caps.min_image_count
             /\ caps.max_image_count # 0 => n <= caps.max_image_count
             /\ n = IF caps.max_image_count # 0
                       /\ caps.max_image_count < caps.min_image_count + 1
                    THEN caps.max_image_count
                    ELSE caps.min_image_count + 1
             /\ (caps.min_image_count = 2 /\ caps.max_image_count = 2) => n = 2

\* C12 witness: a swapchain was created on a device with min 2 and max 2.
C12_Witness ==
    /\ Called /\ created.result = "Ok"
    /\ CapabilitiesUsed.min_image_count = 2 /\ CapabilitiesUsed.max_image_count = 2
    /\ Len(swapchain_ctx[1].image_views) >= 2

\* C13: select_surface_format yields B8G8R8A8_UNORM / SRGB_NONLINEAR when
\* that pair is in the list or the list is one UNDEFINED entry (any colour
\* space); otherwise it yields the first entry of the list.
C13_SelectSurfaceFormat ==
    Called =>
       LET fs == support_details.formats
       IN IF contains(fs, PreferredFormat) \/ (Len(fs) = 1 /\ fs[1].format = "UNDEFINED")
          THEN FormatBuilt(InfoBuilt) = PreferredFormat
          ELSE FormatBuilt(InfoBuilt) = fs[1]

\* C13 witness: the device listed one UNDEFINED entry with another colour
\* space.
C13_Witness ==
    /\ Called
    /\ support_details.formats = <<SurfaceFormatKHR("UNDEFINED", "EXTENDED_SRGB_LINEAR")>>
    /\ FormatBuilt(InfoBuilt) = PreferredFormat

\* C14: select_surface_present_mode yields MAILBOX when it is listed, else
\* FIFO when it is listed, else IMMEDIATE; [FIFO, IMMEDIATE] yields FIFO.
C14_SelectPresentMode ==
    Called =>
       LET ms == support_details.present_modes
       IN /\ InfoBuilt.present_mode =
               IF \E i \in DOMAIN ms : ms[i] = "MAILBOX" THEN "MAILBOX"
               ELSE IF \E i \in DOMAIN ms : ms[i] = "FIFO" THEN "FIFO"
               ELSE "IMMEDIATE"
          /\ ms = <<"FIFO", "IMMEDIATE">> => InfoBuilt.present_mode = "FIFO"

\* C14 witness: the device listed [FIFO, IMMEDIATE].
C14_Witness ==
    /\ Called
    /\ support_details.present_modes = <<"FIFO", "IMMEDIATE">>
    /\ InfoBuilt.present_mode = "FIFO"

C16_ResetOnlyAfterAcquire ==
    (variant \in {"render", "main"} /\ last.waits = 1
       /\ last.acquire \notin {"none", "Success", "Suboptimal"})
      => FenceWaitedNext = "signaled"

\* A resize notification has been delivered and not yet acted upon.
ResizeDelivered ==
    CASE variant = "render" -> resize_needed
      [] variant = "ctx"    -> window_resized
      [] OTHER              -> FALSE

\* C17: a tick that starts with a resize notification delivered and that
\* acquires an image has rebuilt the swapchain-dependent resources before
\* the acquire: nothing is acquired, submitted or presented with the
\* swapchain of before the resize.
C17_RebuildBeforeAcquire ==
    [][(TickStep /\ ResizeDelivered /\ last'.acquire # "none")
         => (last'.rebuild = "Ok" /\ last'.rebuild_at = "before_acquire")]_vars

\* The index of the slot (fence, semaphores, command buffer) a tick uses.
FrameIndex ==
    CASE variant = "render" -> current_frame_in_flight
      [] variant = "main"   -> fence_index
      [] OTHER              -> 0

\* C18: every tick that submits a frame advances the frame index by one
\* modulo the number of frames in flight.
C18_FrameIndexAdvances ==
    [][(TickStep /\ variant \in {"render", "main"} /\ last'.submits = 1)
         => FrameIndex' = (FrameIndex + 1) % (IF variant = "main" THEN fences_len
                                               ELSE max_frames_in_flight)]_vars

\* C19: a tick whose acquire succeeded with the suboptimal flag and whose
\* frame was presented has the rebuild flagged: the rebuild ran after the
\* presentation, or is pending for the next tick, which rebuilds before it
\* acquires.
C19_SuboptimalAcquireRebuilds ==
    (variant \in {"render", "ctx"} /\ last.acquire = "Suboptimal"
       /\ last.submits = 1 /\ last.present = "Success")
      => (last.rebuild_at = "after_present" \/ RebuildPending)

\* C20: in every tick that submits, the submitted command buffer draws into
\* the image the tick acquired and then presents.
C20_DrawsIntoAcquiredImage ==
    last.submits = 1 => last.target = "acquired"

\* C21: in PresentCtx::run, whatever caused the last swapchain recreation,
\* a command buffer that a tick submits was recorded against framebuffers
\* of the current swapchain, never against those of a replaced one.
C21_CommandBuffersOfCurrentSwapchain ==
    [][(CtxFrame /\ last'.submits = 1)
         => command_buffers'.framebuffers = "current"]_vars

\* C22: a swapchain creation on a surface that dictates its extent yields
\* a swapchain whose extent is the surface's current extent at the time of
\* the creation, also after the surface has changed size.
C22_ExtentOfSurfaceAtCreation ==
    [][(CreateSwapchainCtx /\ fixed_extent)
         => swapchain_ctx'[1].swapchain_extent = window]_vars

C28_RenderAreaIsSwapchainExtent ==
    (Called /\ created.result = "Ok" /\ ~IsZeroSize(created.preferred_extent))
      => SizedRenderer_new(created.preferred_extent).render_area
           = swapchain_ctx[1].swapchain_extent

\* C25: whenever the Renderer holds a sized renderer (a frame can be
\* submitted), there is one framebuffer per swapchain image view, each of
\* the swapchain's extent, and the pipeline's viewport and scissor equal
\* that extent.
C25_FramebuffersAndViewportMatchExtent ==
    (variant = "render" /\ sized_renderer # None) =>
       LET sr  == sized_renderer[1]
           ext == sr.swapchain.swapchain_extent
           fbs == sr.framebuffer.framebuffers
       IN /\ DOMAIN fbs = DOMAIN sr.swapchain.image_views
          /\ \A i \in DOMAIN fbs :
                /\ fbs[i].attachment = sr.swapchain.image_views[i]
                /\ fbs[i].width = ext.width /\ fbs[i].height = ext.height
          /\ sr.pipeline.viewport.x = 0 /\ sr.pipeline.viewport.y = 0
          /\ sr.pipeline.viewport.width = ext.width
          /\ sr.pipeline.viewport.height = ext.height
          /\ sr.pipeline.scissor = ext

\* C25 witness: a frame was submitted and presented after a rebuild for
\* another window size than the one of start-up.
C25_Witness ==
    /\ variant = "render" /\ sized_renderer # None
    /\ last.submits = 1 /\ last.present = "Success"
    /\ sized_renderer[1].swapchain.swapchain_extent # original.window

\* C26: in every tick that presents, the fence wait precedes the acquire,
\* the acquire precedes the fence reset, the reset precedes the submit and
\* the submit precedes the present; nothing is presented without a submit
\* in the same tick.
C26_TickCallOrder ==
    LET Made(call) ==
            CASE call = "wait"    -> last.waits = 1
              [] call = "reset"   -> last.waits = 1 \/ variant = "render"
              [] call = "acquire" -> last.acquire # "none"
              [] call = "submit"  -> last.submits = 1
              [] call = "present" -> last.present # "none"
        calls == SelectSeq(TickOrder, Made)
        Before(a, b) ==
            \A i, j \in DOMAIN calls : (calls[i] = a /\ calls[j] = b) => i < j
    IN last.present \in {"Success", "Suboptimal"} =>
          /\ last.submits = 1
          /\ Before("wait", "acquire") /\ Before("acquire", "reset")
          /\ Before("reset", "submit") /\ Before("submit", "present")

\* C30: in main's render loop, while the loop runs, non_optimal_count is in
\* [0, non_optimal_limit) at the end of every tick; a tick that presents
\* updates the surface if and only if present reported OutOfDate or the
\* count of non-optimal frames since the last update has reached the limit;
\* an update resets the count to 0 and leaves no cached image view.
C30_NonOptimalCount ==
    /\ [](variant = "main" /\ ~failed =>
            /\ non_optimal_count >= 0 /\ non_optimal_count < non_optimal_limit
            /\ last.rebuild = "Ok" => (non_optimal_count = 0 /\ surface.views = 0))
    /\ [][MainFrame =>
            ((last'.rebuild # "none")
               <=> (last'.present = "OutOfDate"
                      \/ non_optimal_count + (IF last'.acquire = "Suboptimal" THEN 1 ELSE 0)
                           >= non_optimal_limit))]_vars

\* C30 witness: the surface was updated in a tick whose present succeeded,
\* because the count had reached the limit.
C30_Witness ==
    /\ variant = "main" /\ ~failed
    /\ last.present = "Success" /\ last.acquire = "Suboptimal"
    /\ last.rebuild = "Ok" /\ non_optimal_count = 0 /\ surface.views = 0

\* The devices enumerated and the outcome of the device construction.
Constructed == variant = "device" /\ device_ctx # None
HasBoth(f) == IsUsable(f) /\ f.graphics /\ f.present_support

\* C27: when no enumerated device has a queue family with both graphics
\* capability and presentation support (every family having queues), device
\* construction fails with "No suitable physical device" and creates no
\* logical device.
C27_NoSuitablePhysicalDevice ==
    (Constructed
       /\ \A d \in DOMAIN physical_devices :
             \A i \in DOMAIN physical_devices[d] :
                IsUsable(physical_devices[d][i]) /\ ~HasBoth(physical_devices[d][i]))
      => (device_ctx[1].result = "No suitable physical device"
            /\ ~device_ctx[1].logical_device)

\* C29: the family indices find_queue_families returns are positions in the
\* device's full list of queue families: the family at the graphics index
\* has GRAPHICS and queue_count > 0, the family at the present index
\* supports presentation.
C29_FamilyIndicesInFullList ==
    (Constructed /\ device_ctx[1].result = "Ok") =>
       LET props == physical_devices[device_ctx[1].physical_device]
           g == device_ctx[1].family_indices[1]
           p == device_ctx[1].family_indices[2]
       IN /\ props[g + 1].graphics /\ IsUsable(props[g + 1])
          /\ props[p + 1].present_support

\* C24: Vulkan objects are destroyed in reverse order of dependency: the
\* pipeline and the framebuffers before the render pass, the render pass
\* before the swapchain and its image views, every one of them before the
\* logical device; and when the Renderer is dropped, the wait for the
\* device to be idle comes before the first destruction.
C24_DestructionOrder ==
    LET Pos(o) == IF \E i \in DOMAIN teardown : teardown[i] = o
                  THEN CHOOSE i \in DOMAIN teardown : teardown[i] = o
                  ELSE 0
        Before(a, b) == Pos(b) > 0 => (Pos(a) > 0 /\ Pos(a) < Pos(b))
        Renderers == { r \in DOMAIN strong : r[1] = "Renderer" }
    IN variant = "drop" =>
         /\ \A g \in {1, 2} :
               /\ Before(<<"pipeline", g>>, <<"render_pass", g>>)
               /\ Before(<<"framebuffer", g>>, <<"render_pass", g>>)
               /\ Before(<<"render_pass", g>>, <<"swapchain", g>>)
         /\ Pos(<<"device", 0>>) > 0 =>
               /\ Pos(<<"device", 0>>) = Len(teardown)
               /\ \A o \in DOMAIN strong : strong[o] = 0
         /\ \A r \in Renderers :
               (strong[r] = 0 /\ teardown # <<>>) => teardown[1] = <<"wait_for_idle", 0>>
         /\ \A i, j \in DOMAIN teardown : teardown[i] = teardown[j] => i = j

C24_Witness ==
    /\ variant = "drop" /\ dropping = <<>>
    /\ Len(teardown) > 1
    /\ teardown[1] = <<"wait_for_idle", 0>>
    /\ teardown[Len(teardown)] = <<"device", 0>>
    /\ \E i, j, k \in DOMAIN teardown :
          /\ teardown[i] = <<"pipeline", 1>>
          /\ teardown[j] = <<"render_pass", 1>>
          /\ teardown[k] = <<"swapchain", 1>>
          /\ i < j /\ j < k

====
